---- MODULE Spec2Model ----
(***************************************************************************)
(* Model of the Go consensus node (src/go/raft.go) in a cluster of three   *)
(* worker processes (src/go/main.go).                                      *)
(*                                                                         *)
(* Every critical section of the code (a region between rn.mu.Lock and     *)
(* rn.mu.Unlock) is one atomic action.  An RPC is one action as well: the  *)
(* sending goroutine builds the request from the sender's state, the       *)
(* receiver runs its handler under its lock, and the sending goroutine     *)
(* counts the response, unless the response is lost.  A sending goroutine  *)
(* that has not run when its caller stops waiting never reaches the peer.  *)
(* No timing is assumed: timers, tickers, goroutines and clients run at    *)
(* any speed.                                                              *)
(*                                                                         *)
(* rn.nextIndex and rn.matchIndex are written at an election win and never *)
(* read; they are left out.  The persistence path and the apply callback   *)
(* are set before Start (main.go lines 97-131), and every command handed   *)
(* to Replicate is a non-nil map.                                          *)
(*                                                                         *)
(* Spec and the specifications that differ from it in the initial state    *)
(* only follow the consensus core with callers of Replicate.  SpecApply    *)
(* adds the goroutines of the apply callback, SpecTrain the TRAIN handler  *)
(* of main.go, and SpecSolo follows processes started without peers.       *)
(* SpecStop adds calls of Stop, SpecMalformed malformed messages on the    *)
(* RPC port, SpecStore the callbacks of a cluster that has applied its     *)
(* first entry, with the files they write, and SpecCallback follows the    *)
(* callback alone on any commands.                                         *)
(* SpecLock follows callbacks that call back into the node, under fair     *)
(* scheduling.  SpecKotlin follows the RaftNode class of the Kotlin worker *)
(* (src/unnamed/part_002) in a cluster of three Kotlin workers.            *)
(***************************************************************************)
EXTENDS Integers, Sequences, FiniteSets, TLC

\* ------------------------------------------------------------------ bounds
\* Total number of events that come from outside the protocol: expiries of
\* an election timer, ticks of a heartbeat ticker, Replicate calls of
\* clients, process shutdowns, calls of Stop and malformed messages.  RPC
\* deliveries, tallies and restarts are not counted.
MaxEvents == 2
\* The number of callback runs of the specification of the callback alone.
MaxRuns == 3

\* --------------------------------------------------------------- constants
\* The node ids (host:port strings in main.go); "" is the empty votedFor.
Nodes == {"n1", "n2", "n3"}
\* Command payloads handed to Replicate by a caller: the k-th call carries
\* "ck".
Command(k) == IF k = 1 THEN "c1" ELSE IF k = 2 THEN "c2" ELSE "c3"
\* handleTrain builds the payload of its call from a fresh training id: the
\* MODEL_TRAINED command of the k-th call.
Trained(k) == IF k = 1 THEN "m1" ELSE IF k = 2 THEN "m2" ELSE "m3"
\* No raft_state.json in the persistence directory.
NoFile == [absent |-> TRUE]
\* rn.leader == nil
NoLeader == "nil"
\* Outcomes of one sendRPC whose request reaches the handler: the response
\* comes back, or it is lost (or arrives after the deadline).  A request
\* that never reaches its handler (peer down, dial or write failure) is a
\* sending goroutine that is still pending when the caller stops waiting.
Outcomes == {"delivered", "resp_lost"}

VARIABLES
    rn,          \* rn[n]: the RaftNode object of n, with its state file and
                 \* the apply-callback dispatches of the running process
    up,          \* up[n]: the process of n is running
    elections,   \* startElection calls in progress
    replicates,  \* Replicate calls in progress
    hbPending,   \* hbPending[n]: heartbeat goroutines spawned, not yet sent
    leaders,     \* history: <<n, t>> for every election win of n in term t
    voted,       \* history: <<n, t, c>> for every vote of n for c in term t
    appliedAt,   \* history: appliedAt[n] = all <<index, command>> dispatched
    returns,     \* history: the return records of Replicate calls
    boots,       \* history: boots[n] = number of restarts of n
    calls,       \* number of Replicate calls made so far
    events,      \* number of outside events so far
    callbacks,   \* callbacks[n]: apply-callback goroutines spawned by the
                 \* running process of n that have not started yet
    ran,         \* history: ran[n] = the <<index, command>> of the callbacks
                 \* of n in the order they started
    trains,      \* handleTrain calls in progress
    responses,   \* history: the responses sent to TRAIN clients
    heard,       \* history: heard[n] = the highest term that a response
                 \* carried to n above the currentTerm n had on receiving
                 \* it, 0 if there was none
    malformed    \* history: the malformed messages handed to handleRPC

vars == <<rn, up, elections, replicates, hbPending, leaders, voted,
          appliedAt, returns, boots, calls, events, callbacks, ran, trains,
          responses, heard, malformed>>

\* -------------------------------------------------------------- the node
\* rn.peers: the peers the process of n was started with.
Peers(n) == rn[n].peers

\* total := len(rn.peers) + 1; majority := total/2 + 1
MajorityBad(n) == (Cardinality(Peers(n)) + 1) \div 2
Majority(n) == (Cardinality(Peers(n)) + 1) \div 2 + 1

\* json.Marshal of the state map written by saveState.
Marshal(r) ==
    [current_term |-> r.currentTerm,
     voted_for    |-> r.votedFor,
     log          |-> [i \in 1..Len(r.log) |->
                         [term |-> r.log[i].Term, command |-> r.log[i].Command]]]

\* saveState: the state file is replaced by the marshalled state.
saveState(r) == [r EXCEPT !.file = Marshal(r)]

\* loadState: a missing file leaves the constructed values.
loadStateNoVote(r) ==
    IF r.file = NoFile THEN r
    ELSE [r EXCEPT !.currentTerm = r.file.current_term,
                   !.log = [i \in 1..Len(r.file.log) |->
                              [Term |-> r.file.log[i].term,
                               Command |-> r.file.log[i].command]]]
loadStateNoTerm(r) ==
    IF r.file = NoFile THEN r
    ELSE [r EXCEPT !.votedFor = r.file.voted_for,
                   !.log = [i \in 1..Len(r.file.log) |->
                              [Term |-> r.file.log[i].term,
                               Command |-> r.file.log[i].command]]]
loadState(r) ==
    IF r.file = NoFile THEN r
    ELSE [r EXCEPT !.currentTerm = r.file.current_term,
                   !.votedFor = r.file.voted_for,
                   !.log = [i \in 1..Len(r.file.log) |->
                              [Term |-> r.file.log[i].term,
                               Command |-> r.file.log[i].command]]]

\* NewRaftNode, with the state file found in the persistence directory.
NewRaftNode(id, peers, file) ==
    [id |-> id, peers |-> peers, currentTerm |-> 0, votedFor |-> "", log |-> <<>>,
     commitIndex |-> -1, lastApplied |-> -1, state |-> "follower",
     leader |-> NoLeader, electionTimer |-> FALSE,
     file |-> file, dispatched |-> <<>>,
     stopCh |-> "open", listener |-> "open"]

\* resetElectionTimeout: the pending timer is replaced by a new one.
resetElectionTimeout(r) == [r EXCEPT !.electionTimer = TRUE]

\* Start: loadState, then resetElectionTimeout.
Start(r) == resetElectionTimeout(loadState(r))

\* applyCommitted: lastApplied is advanced to commitIndex; every index
\* inside the log is dispatched to the callback (log index i is log[i+1]).
RECURSIVE applyCommitted(_)
applyCommitted(r) ==
    IF r.lastApplied < r.commitIndex
    THEN LET i == r.lastApplied + 1
             r1 == [r EXCEPT !.lastApplied = i]
             r2 == IF i >= 0 /\ i < Len(r.log)
                   THEN [r1 EXCEPT !.dispatched =
                            Append(@, <<i, r.log[i + 1].Command>>)]
                   ELSE r1
         IN applyCommitted(r2)
    ELSE r


\* ------------------------------------------------------------- handlers
\* handleRequestVote line 504: the grant condition, evaluated after the
\* term step of lines 496-501.
voteGrantedAny(r, term, candidateID) == term >= r.currentTerm
voteGranted(r, term, candidateID) ==
    (r.votedFor = "" \/ r.votedFor = candidateID) /\ term >= r.currentTerm

\* handleRequestVote: the new node state and the VOTE_RESPONSE.
handleRequestVote(r, msg) ==
    LET term == msg.term
        candidateID == msg.candidate_id
        r1 == IF term > r.currentTerm
              THEN saveState([r EXCEPT !.currentTerm = term,
                                       !.votedFor = "",
                                       !.state = "follower"])
              ELSE r
        granted == voteGranted(r1, term, candidateID)
        r2 == IF granted
              THEN saveState([r1 EXCEPT !.votedFor = candidateID])
              ELSE r1
        r3 == resetElectionTimeout(r2)
    IN [rn |-> r3,
        resp |-> [type |-> "VOTE_RESPONSE", term |-> r3.currentTerm,
                  vote_granted |-> granted]]

\* handleAppendEntries lines 533 and 557: whether the handler persists.
stateChangedEntriesOnly(r, msg) == Len(msg.entries) > 0
stateChanged(r, msg) == msg.term > r.currentTerm \/ Len(msg.entries) > 0

\* handleAppendEntries lines 563-570: the commit index after the append.
Min(a, b) == IF a < b THEN a ELSE b
updateCommitIndexNoMin(r, leaderCommit) ==
    IF leaderCommit > r.commitIndex
    THEN applyCommitted([r EXCEPT !.commitIndex = leaderCommit])
    ELSE r
updateCommitIndex(r, leaderCommit) ==
    IF leaderCommit > r.commitIndex
    THEN applyCommitted([r EXCEPT !.commitIndex =
                             Min(leaderCommit, Len(r.log) - 1)])
    ELSE r

\* handleAppendEntries line 531: the message is of the current term or of
\* a newer one.
termAcceptedAny(r, msg) == TRUE
termAccepted(r, msg) == msg.term >= r.currentTerm

\* handleAppendEntries: the new node state and the APPEND_RESPONSE.
handleAppendEntries(r, msg) ==
    IF termAccepted(r, msg)
    THEN LET r1 == [r EXCEPT !.currentTerm = msg.term,
                             !.state = "follower",
                             !.leader = msg.leader_id]
             r2 == [r1 EXCEPT !.log = @ \o
                       [i \in 1..Len(msg.entries) |->
                           [Term |-> msg.entries[i].term,
                            Command |-> msg.entries[i].command]]]
             r3 == updateCommitIndex(r2, msg.leader_commit)
             r4 == IF stateChanged(r, msg) THEN saveState(r3) ELSE r3
             r5 == resetElectionTimeout(r4)
         IN [rn |-> r5,
             resp |-> [type |-> "APPEND_RESPONSE", term |-> r5.currentTerm,
                       success |-> TRUE]]
    ELSE [rn |-> r,
          resp |-> [type |-> "APPEND_RESPONSE", term |-> r.currentTerm,
                    success |-> FALSE]]

\* The REQUEST_VOTE message of startElection lines 260-264.
RequestVoteMsg(term, id) ==
    [type |-> "REQUEST_VOTE", term |-> term, candidate_id |-> id]

\* The APPEND_ENTRIES message sendAppendEntries builds from the sender's
\* state at the moment the sending goroutine runs.
AppendEntriesMsg(r, entries) ==
    [type |-> "APPEND_ENTRIES", term |-> r.currentTerm, leader_id |-> r.id,
     entries |-> [i \in 1..Len(entries) |->
                    [term |-> entries[i].Term, command |-> entries[i].Command]],
     prev_log_index |-> -1, prev_log_term |-> 0,
     leader_commit |-> r.commitIndex]

\* ---------------------------------------------------------------- history
\* The dispatches of the running processes, added to those of earlier ones.
Applied(rnNew) ==
    [n \in Nodes |-> appliedAt[n] \cup
        {rnNew[n].dispatched[i] : i \in 1..Len(rnNew[n].dispatched)}]

\* applyCommitted line 222: one goroutine per dispatch of this step.
Spawned(rnNew) ==
    [n \in Nodes |-> callbacks[n] \cup
        {rnNew[n].dispatched[i] :
            i \in (Len(rn[n].dispatched) + 1)..Len(rnNew[n].dispatched)}]

\* ------------------------------------------------------------------- Init
\* A node right after NewRaftNode, SetPersistencePath and Start on an empty
\* persistence directory.
FreshNode(n) == Start(NewRaftNode(n, Nodes \ {n}, NoFile))

\* A fresh node whose election timer fired once: startElection lines 240-247.
FirstCandidate(n) ==
    saveState([FreshNode(n) EXCEPT !.state = "candidate", !.currentTerm = 1,
                                   !.votedFor = n, !.electionTimer = FALSE])

\* A fresh node that answered the REQUEST_VOTE of candidate c for term 1.
FirstVoter(n, c) == handleRequestVote(FreshNode(n), RequestVoteMsg(1, c)).rn

\* The cluster right after every process has started.
InitFresh ==
    /\ rn = [n \in Nodes |-> FreshNode(n)]
    /\ elections = {}
    /\ leaders = {}
    /\ voted = {}

\* The cluster after its first election: the timer of n1 fired, n2 and n3
\* granted their votes and the tally made n1 leader of term 1.
InitElected ==
    /\ rn = [n \in Nodes |->
               IF n = "n1"
               THEN [FirstCandidate(n) EXCEPT !.state = "leader",
                                              !.leader = "n1"]
               ELSE FirstVoter(n, "n1")]
    /\ elections = {}
    /\ leaders = {<<"n1", 1>>}
    /\ voted = {<<n, 1, "n1">> : n \in Nodes}

\* The cluster in a split first election: the timer of n1 fired and n3
\* granted its vote, then the timer of n2 fired; neither election has been
\* tallied and the other REQUEST_VOTE goroutines have not run yet.
InitRace ==
    /\ rn = [n \in Nodes |->
               IF n = "n3" THEN FirstVoter(n, "n1") ELSE FirstCandidate(n)]
    /\ elections = {[id |-> "n1", term |-> 1, votes |-> 2, pending |-> {"n2"}],
                    [id |-> "n2", term |-> 1, votes |-> 1,
                     pending |-> {"n1", "n3"}]}
    /\ leaders = {}
    /\ voted = {<<"n1", 1, "n1">>, <<"n3", 1, "n1">>, <<"n2", 1, "n2">>}

\* The candidate n1 of InitRace after it denied the REQUEST_VOTE of n2 (its
\* timer is armed again), its timer fired a second time (term 2) and the
\* tally of its first election found two votes: startElection lines 288-301.
StaleLeader ==
    LET r == handleRequestVote(FirstCandidate("n1"),
                               RequestVoteMsg(1, "n2")).rn
    IN [saveState([r EXCEPT !.state = "candidate", !.currentTerm = 2,
                            !.votedFor = "n1", !.electionTimer = FALSE])
          EXCEPT !.state = "leader", !.leader = "n1"]

\* The cluster of InitRace after these three steps: n1 is leader with
\* currentTerm 2 on the votes of term 1.
InitStale ==
    /\ rn = [n \in Nodes |->
               IF n = "n1" THEN StaleLeader
               ELSE IF n = "n2" THEN FirstCandidate(n)
               ELSE FirstVoter(n, "n1")]
    /\ elections = {[id |-> "n2", term |-> 1, votes |-> 1, pending |-> {"n3"}],
                    [id |-> "n1", term |-> 2, votes |-> 1,
                     pending |-> {"n2", "n3"}]}
    /\ leaders = {<<"n1", 2>>}
    /\ voted = {<<"n1", 1, "n1">>, <<"n3", 1, "n1">>, <<"n2", 1, "n2">>,
                <<"n1", 2, "n1">>}

\* The first entry of the log of a leader of term 1.
FirstEntry == [Term |-> 1, Command |-> Command(1)]

\* The leader n1 of InitElected after the first region of Replicate (lines
\* 370-380), and after the majority check of that call (lines 413-422).
LeaderAppended ==
    saveState([[FirstCandidate("n1") EXCEPT !.state = "leader",
                                            !.leader = "n1"]
                  EXCEPT !.log = Append(@, FirstEntry)])
LeaderCommitted == applyCommitted([LeaderAppended EXCEPT !.commitIndex = 0])

\* A follower of InitElected after the APPEND_ENTRIES of that call, and
\* after the next heartbeat of the leader.
FollowerAppended(n) ==
    handleAppendEntries(FirstVoter(n, "n1"),
                        AppendEntriesMsg(LeaderAppended, <<FirstEntry>>)).rn
FollowerApplied(n) ==
    handleAppendEntries(FollowerAppended(n),
                        AppendEntriesMsg(LeaderCommitted, <<>>)).rn

\* The cluster after its first committed entry: n1 was elected, one
\* Replicate call on n1 was acknowledged by n2 and n3 and returned true, and
\* the next heartbeat of n1 reached n2 and n3; every callback has run.
InitApplied ==
    /\ rn = [n \in Nodes |->
               IF n = "n1" THEN LeaderCommitted ELSE FollowerApplied(n)]
    /\ up = [n \in Nodes |-> TRUE]
    /\ elections = {}
    /\ replicates = {}
    /\ hbPending = [n \in Nodes |-> {}]
    /\ leaders = {<<"n1", 1>>}
    /\ voted = {<<n, 1, "n1">> : n \in Nodes}
    /\ appliedAt = [n \in Nodes |-> {<<0, Command(1)>>}]
    /\ returns = {[id |-> "n1", index |-> 0, entry |-> FirstEntry,
                   acked |-> {"n2", "n3"}, result |-> TRUE]}
    /\ boots = [n \in Nodes |-> 0]
    /\ calls = 1
    /\ events = 0
    /\ callbacks = [n \in Nodes |-> {}]
    /\ ran = [n \in Nodes |-> <<<<0, Command(1)>>>>]
    /\ trains = {}
    /\ responses = {}
    /\ heard = [n \in Nodes |-> 0]
    /\ malformed = {}

\* The cluster at the moment its first entry is committed: n1 was elected,
\* one Replicate call on n1 was acknowledged by n2 and n3 and has just
\* returned true; the callback goroutine that the call has spawned on n1
\* has not started.
InitCommitted ==
    /\ rn = [n \in Nodes |->
               IF n = "n1" THEN LeaderCommitted ELSE FollowerAppended(n)]
    /\ up = [n \in Nodes |-> TRUE]
    /\ elections = {}
    /\ replicates = {}
    /\ hbPending = [n \in Nodes |-> {}]
    /\ leaders = {<<"n1", 1>>}
    /\ voted = {<<n, 1, "n1">> : n \in Nodes}
    /\ appliedAt = [n \in Nodes |->
                      IF n = "n1" THEN {<<0, Command(1)>>} ELSE {}]
    /\ returns = {[id |-> "n1", index |-> 0, entry |-> FirstEntry,
                   acked |-> {"n2", "n3"}, result |-> TRUE]}
    /\ boots = [n \in Nodes |-> 0]
    /\ calls = 1
    /\ events = MaxEvents - 1
    /\ callbacks = [n \in Nodes |->
                      IF n = "n1" THEN {<<0, Command(1)>>} ELSE {}]
    /\ ran = [n \in Nodes |-> <<>>]
    /\ trains = {}
    /\ responses = {}
    /\ heard = [n \in Nodes |-> 0]
    /\ malformed = {}

\* Three clusters of one node each: every process was started without
\* peers.
InitSolo ==
    /\ rn = [n \in Nodes |-> Start(NewRaftNode(n, {}, NoFile))]
    /\ elections = {}
    /\ leaders = {}
    /\ voted = {}

\* What no node has done yet in any of the states InitFresh, InitElected,
\* InitRace, InitStale and InitSolo.
InitRest ==
    /\ up = [n \in Nodes |-> TRUE]
    /\ replicates = {}
    /\ hbPending = [n \in Nodes |-> {}]
    /\ appliedAt = [n \in Nodes |-> {}]
    /\ returns = {}
    /\ boots = [n \in Nodes |-> 0]
    /\ calls = 0
    /\ events = 0
    /\ callbacks = [n \in Nodes |-> {}]
    /\ ran = [n \in Nodes |-> <<>>]
    /\ trains = {}
    /\ responses = {}
    /\ heard = [n \in Nodes |-> 0]
    /\ malformed = {}

\* The event budget is counted from a cluster that has just started or has
\* just elected its first leader; InitElected and InitRace are reached from
\* InitFresh (ReachElected and ReachRace under SpecFresh).
Init == (InitFresh \/ InitElected) /\ InitRest

\* ---------------------------------------------------------- apply callback
\* The fields of a command that the callback of main.go reads.  A filename
\* is kept as the sequence of its elements between path separators.
Payload(cmd) ==
    IF cmd = "c1"
    THEN [action |-> "STORE_FILE", filename |-> <<"x.bin">>,
          data_b64 |-> "aGVsbG8="]
    ELSE IF cmd = "c2"
    THEN [action |-> "STORE_FILE", filename |-> <<"..", "x.bin">>,
          data_b64 |-> "d29ybGQ="]
    ELSE IF cmd = "c3"
    THEN [action |-> "STORE_FILE", filename |-> <<"x.bin">>,
          data_b64 |-> "d29ybGQ="]
    ELSE IF cmd = "c4"
    THEN [action |-> "STORE_FILE", filename |-> <<"y.bin">>,
          data_b64 |-> "aGVsbG8"]
    ELSE IF cmd = "c5"
    THEN [action |-> "STORE_FILE", filename |-> <<"sub", "y.bin">>,
          data_b64 |-> "aGVsbG8="]
    ELSE IF cmd = "c6"
    THEN [action |-> "STORE_FILE", filename |-> <<>>, data_b64 |-> "aGVsbG8="]
    ELSE [action |-> "MODEL_TRAINED", filename |-> <<>>, data_b64 |-> ""]

Commands == {"c1", "c2", "c3", "c4", "c5", "c6", "m1", "m2", "m3"}

\* base64.StdEncoding.DecodeString on the strings above: "aGVsbG8" lacks
\* its padding and is an error.
DecodeString(s) ==
    IF s = "aGVsbG8=" THEN [err |-> FALSE, data |-> "hello"]
    ELSE IF s = "d29ybGQ=" THEN [err |-> FALSE, data |-> "world"]
    ELSE [err |-> TRUE, data |-> ""]

\* main.go lines 61-66: the directories of a node, as paths from the
\* working directory.
storageDir == <<"storage">>
modelsDir == <<"storage", "models">>
Dirs == {<<>>, storageDir, modelsDir}

\* filepath.Clean on a relative path: an element ".." removes the element
\* before it.
RECURSIVE Clean(_, _)
Clean(done, rest) ==
    IF rest = <<>> THEN done
    ELSE IF Head(rest) = ".." /\ done # <<>> /\ done[Len(done)] # ".."
    THEN Clean(SubSeq(done, 1, Len(done) - 1), Tail(rest))
    ELSE Clean(Append(done, Head(rest)), Tail(rest))

\* filepath.Join.
Join(dir, name) == Clean(<<>>, dir \o name)

\* os.WriteFile(path, data, 0644) on the files fs, a function from paths to
\* contents, a content being the sequence of the byte strings written
\* since the file was created or truncated: the file is created or
\* truncated and data is written; the call fails when the directory of
\* path does not exist or path is one.
WriteFileAppend(fs, path, data) ==
    IF path = <<>> \/ path \in Dirs
       \/ SubSeq(path, 1, Len(path) - 1) \notin Dirs
    THEN fs
    ELSE [q \in DOMAIN fs \cup {path} |->
            IF q # path THEN fs[q]
            ELSE IF q \in DOMAIN fs THEN Append(fs[q], data) ELSE <<data>>]
WriteFile(fs, path, data) ==
    IF path = <<>> \/ path \in Dirs
       \/ SubSeq(path, 1, Len(path) - 1) \notin Dirs
    THEN fs
    ELSE [q \in DOMAIN fs \cup {path} |->
            IF q = path THEN <<data>> ELSE fs[q]]

\* The callback of main.go lines 97-126 on the files fs.
applyCallback(fs, cmd) ==
    LET c == Payload(cmd)
        d == DecodeString(c.data_b64)
    IN IF c.action # "STORE_FILE" THEN fs
       ELSE IF c.filename = <<>> \/ c.data_b64 = "" THEN fs
       ELSE IF d.err THEN fs
       ELSE WriteFile(fs, Join(modelsDir, c.filename), d.data)

\* The files of a node after the callbacks of ds have run one after the
\* other on the files fs.
RECURSIVE RunAll(_, _)
RunAll(fs, ds) ==
    IF ds = <<>> THEN fs
    ELSE RunAll(applyCallback(fs, Head(ds)[2]), Tail(ds))

\* The files that the callbacks of n have left on the disk of n.
Files(n) == RunAll(<<>>, ran[n])

\* -------------------------------------------------------------- RPC server
\* startRPCServer lines 444-456: the loop looks at stopCh only between two
\* calls of Accept, so that the listener of a running process takes
\* connections until it is closed.
Accepts(n) == up[n] /\ rn[n].listener # "closed"

\* The loop after Accept has returned a connection and handleRPC was
\* spawned for it: with stopCh closed the loop returns and the deferred
\* Close of line 441 runs.
accepted(r) ==
    IF r.stopCh = "closed" THEN [r EXCEPT !.listener = "closed"] ELSE r

\* The response resp reaches its sender n with outcome o.
Heard(n, resp, o) ==
    IF o = "delivered" /\ resp.term > rn[n].currentTerm /\ resp.term > heard[n]
    THEN [heard EXCEPT ![n] = resp.term]
    ELSE heard

\* ---------------------------------------------------------------- election
\* startElection lines 240-255: the node becomes candidate of the next
\* term, votes for itself and spawns one goroutine per peer.
startElection(n) ==
    /\ up[n]
    /\ rn[n].electionTimer
    /\ LET r == saveState([rn[n] EXCEPT !.state = "candidate",
                                        !.currentTerm = @ + 1,
                                        !.votedFor = rn[n].id,
                                        !.electionTimer = FALSE])
       IN /\ rn' = [rn EXCEPT ![n] = r]
          /\ elections' = elections \cup
                {[id |-> n, term |-> r.currentTerm, votes |-> 1,
                  pending |-> Peers(n)]}
          /\ voted' = voted \cup {<<n, r.currentTerm, n>>}
    /\ UNCHANGED <<up, replicates, hbPending, leaders, appliedAt, returns,
                   calls, boots>>
    /\ UNCHANGED <<callbacks, ran, trains, responses>>
    /\ UNCHANGED <<heard, malformed>>

\* The election timer of n fires.
TimerFire(n) ==
    /\ events < MaxEvents
    /\ events' = events + 1
    /\ startElection(n)

\* The election timer of a node without peers fires.  Such a node wins
\* every election it starts and its timer is armed by Start only, so that
\* the expiry is no event of its own.
SoloTimerFire(n) ==
    /\ rn[n].peers = {}
    /\ startElection(n)
    /\ UNCHANGED events

\* One REQUEST_VOTE goroutine of election e reaches p: startElection lines
\* 257-272 and handleRequestVote on p.
RequestVoteRPC(e, p, o) ==
    /\ e \in elections
    /\ p \in e.pending
    /\ Accepts(p)
    /\ LET h == handleRequestVote(rn[p], RequestVoteMsg(e.term, e.id))
           counted == o = "delivered" /\ h.resp.vote_granted
       IN /\ rn' = [rn EXCEPT ![p] = accepted(h.rn)]
          /\ heard' = Heard(e.id, h.resp, o)
          /\ voted' = IF h.resp.vote_granted
                      THEN voted \cup {<<p, h.rn.currentTerm, e.id>>}
                      ELSE voted
          /\ elections' = (elections \ {e}) \cup
                {[e EXCEPT !.pending = @ \ {p},
                           !.votes = IF counted THEN @ + 1 ELSE @]}
    /\ UNCHANGED <<up, replicates, hbPending, leaders, appliedAt, returns,
                   calls, events, boots>>
    /\ UNCHANGED <<callbacks, ran, trains, responses>>
    /\ UNCHANGED malformed

\* The wait of election e ends and the votes are tallied: startElection
\* lines 282-315.  The goroutines still pending are not followed further.
ElectionTally(e) ==
    /\ e \in elections
    /\ LET r == rn[e.id]
           won == r.state = "candidate" /\ e.votes >= Majority(e.id)
           r1 == IF r.state # "candidate" THEN r
                 ELSE IF won
                      THEN [r EXCEPT !.state = "leader", !.leader = r.id]
                      ELSE resetElectionTimeout(r)
       IN /\ rn' = [rn EXCEPT ![e.id] = r1]
          /\ leaders' = IF won THEN leaders \cup {<<e.id, r.currentTerm>>}
                        ELSE leaders
    /\ elections' = elections \ {e}
    /\ UNCHANGED <<up, replicates, hbPending, voted, appliedAt, returns,
                   calls, events, boots>>
    /\ UNCHANGED <<callbacks, ran, trains, responses>>
    /\ UNCHANGED <<heard, malformed>>

\* A tick of leaderLoop on a leader: sendHeartbeats spawns one goroutine
\* per peer.  With stopCh closed the select of line 325 returns.
LeaderTick(n) ==
    /\ up[n]
    /\ rn[n].state = "leader"
    /\ rn[n].stopCh = "open"
    /\ events < MaxEvents
    /\ events' = events + 1
    /\ hbPending' = [hbPending EXCEPT ![n] = Peers(n)]
    /\ UNCHANGED <<rn, up, elections, replicates, leaders, voted, appliedAt,
                   returns, calls, boots>>
    /\ UNCHANGED <<callbacks, ran, trains, responses>>
    /\ UNCHANGED <<heard, malformed>>

\* One heartbeat goroutine of n runs sendAppendEntries(p, []) and reaches
\* p; the response of a heartbeat is not used.
HeartbeatRPC(n, p) ==
    /\ p \in hbPending[n]
    /\ Accepts(p)
    /\ hbPending' = [hbPending EXCEPT ![n] = @ \ {p}]
    /\ LET h == handleAppendEntries(rn[p], AppendEntriesMsg(rn[n], <<>>))
           rnNew == [rn EXCEPT ![p] = accepted(h.rn)]
       IN /\ rn' = rnNew
          /\ appliedAt' = Applied(rnNew)
          /\ callbacks' = Spawned(rnNew)
    /\ UNCHANGED <<up, elections, replicates, leaders, voted, returns,
                   calls, events, boots>>
    /\ UNCHANGED <<ran, trains, responses>>
    /\ UNCHANGED <<heard, malformed>>

\* ------------------------------------------------------------- replication
\* A client calls Replicate(cmd) on n: lines 370-380.  On a node that is
\* not leader the call returns false at once.
ReplicateCallNoCheck(n, cmd) ==
    /\ up[n]
    /\ events < MaxEvents
    /\ events' = events + 1
    /\ calls' = calls + 1
    /\ LET entry == [Term |-> rn[n].currentTerm, Command |-> cmd]
           r == saveState([rn[n] EXCEPT !.log = Append(@, entry)])
       IN /\ rn' = [rn EXCEPT ![n] = r]
          /\ replicates' = replicates \cup
               {[id |-> n, entry |-> entry, myIndex |-> Len(r.log) - 1,
                 acks |-> 1, acked |-> {}, pending |-> Peers(n)]}
          /\ UNCHANGED returns
    /\ UNCHANGED <<up, elections, hbPending, leaders, voted, appliedAt, boots>>
    /\ UNCHANGED <<callbacks, ran, trains, responses>>
    /\ UNCHANGED <<heard, malformed>>
ReplicateCall(n, cmd) ==
    /\ up[n]
    /\ events < MaxEvents
    /\ events' = events + 1
    /\ calls' = calls + 1
    /\ IF rn[n].state # "leader"
       THEN /\ returns' = returns \cup
                 {[id |-> n, index |-> -1,
                   entry |-> [Term |-> rn[n].currentTerm, Command |-> cmd],
                   acked |-> {}, result |-> FALSE]}
            /\ UNCHANGED <<rn, replicates>>
       ELSE LET entry == [Term |-> rn[n].currentTerm, Command |-> cmd]
                r == saveState([rn[n] EXCEPT !.log = Append(@, entry)])
            IN /\ rn' = [rn EXCEPT ![n] = r]
               /\ replicates' = replicates \cup
                    {[id |-> n, entry |-> entry, myIndex |-> Len(r.log) - 1,
                      acks |-> 1, acked |-> {}, pending |-> Peers(n)]}
               /\ UNCHANGED returns
    /\ UNCHANGED <<up, elections, hbPending, leaders, voted, appliedAt, boots>>
    /\ UNCHANGED <<callbacks, ran, trains, responses>>
    /\ UNCHANGED <<heard, malformed>>

\* One goroutine of call c runs sendAppendEntries(p, [entry]) and reaches
\* p: lines 390-397.  c.acked keeps which peers answered success.
ReplicateRPC(c, p, o) ==
    /\ c \in replicates
    /\ p \in c.pending
    /\ Accepts(p)
    /\ LET h == handleAppendEntries(rn[p],
                   AppendEntriesMsg(rn[c.id], <<c.entry>>))
           counted == o = "delivered" /\ h.resp.success
           rnNew == [rn EXCEPT ![p] = accepted(h.rn)]
       IN /\ rn' = rnNew
          /\ heard' = Heard(c.id, h.resp, o)
          /\ appliedAt' = Applied(rnNew)
          /\ callbacks' = Spawned(rnNew)
          /\ replicates' = (replicates \ {c}) \cup
                {[c EXCEPT !.pending = @ \ {p},
                           !.acks = IF counted THEN @ + 1 ELSE @,
                           !.acked = IF counted THEN @ \cup {p} ELSE @]}
    /\ UNCHANGED <<up, elections, hbPending, leaders, voted, returns,
                   calls, events, boots>>
    /\ UNCHANGED <<ran, trains, responses>>
    /\ UNCHANGED malformed

\* Call c stops waiting and checks the majority: lines 407-425.  The
\* goroutines still pending are not followed further.
ReplicateTallyNoApply(c) ==
    /\ c \in replicates
    /\ LET r == rn[c.id]
           ok == c.acks >= Majority(c.id)
           r1 == IF ok THEN [r EXCEPT !.commitIndex = c.myIndex] ELSE r
           rnNew == [rn EXCEPT ![c.id] = r1]
       IN /\ rn' = rnNew
          /\ appliedAt' = Applied(rnNew)
          /\ callbacks' = Spawned(rnNew)
          /\ returns' = returns \cup
                {[id |-> c.id, index |-> c.myIndex, entry |-> c.entry,
                  acked |-> c.acked, result |-> ok]}
    /\ replicates' = replicates \ {c}
    /\ UNCHANGED <<up, elections, hbPending, leaders, voted, calls, events, boots>>
    /\ UNCHANGED <<ran, trains, responses>>
    /\ UNCHANGED <<heard, malformed>>
ReplicateTally(c) ==
    /\ c \in replicates
    /\ LET r == rn[c.id]
           ok == c.acks >= Majority(c.id)
           r1 == IF ok
                 THEN applyCommitted([r EXCEPT !.commitIndex = c.myIndex])
                 ELSE r
           rnNew == [rn EXCEPT ![c.id] = r1]
       IN /\ rn' = rnNew
          /\ appliedAt' = Applied(rnNew)
          /\ callbacks' = Spawned(rnNew)
          /\ returns' = returns \cup
                {[id |-> c.id, index |-> c.myIndex, entry |-> c.entry,
                  acked |-> c.acked, result |-> ok]}
    /\ replicates' = replicates \ {c}
    /\ UNCHANGED <<up, elections, hbPending, leaders, voted, calls, events, boots>>
    /\ UNCHANGED <<ran, trains, responses>>
    /\ UNCHANGED <<heard, malformed>>

\* ------------------------------------------------------- process lifetime
\* The process of n ends; its goroutines, timers and client connections end
\* with it.  rn[n] keeps the values the process had, and the state file
\* stays on disk.
Shutdown(n) ==
    /\ up[n]
    /\ events < MaxEvents
    /\ events' = events + 1
    /\ up' = [up EXCEPT ![n] = FALSE]
    /\ elections' = {e \in elections : e.id # n}
    /\ replicates' = {c \in replicates : c.id # n}
    /\ hbPending' = [hbPending EXCEPT ![n] = {}]
    /\ UNCHANGED <<rn, leaders, voted, appliedAt, returns, calls, boots>>
    /\ callbacks' = [callbacks EXCEPT ![n] = {}]
    /\ trains' = {t \in trains : t.id # n}
    /\ UNCHANGED <<ran, responses>>
    /\ UNCHANGED <<heard, malformed>>

\* The process of n is started again with the same flags: main.go lines
\* 94-131 (NewRaftNode, SetPersistencePath, Start).
Restart(n) ==
    /\ ~up[n]
    /\ up' = [up EXCEPT ![n] = TRUE]
    /\ rn' = [rn EXCEPT ![n] =
                 Start(NewRaftNode(n, rn[n].peers, rn[n].file))]
    /\ boots' = [boots EXCEPT ![n] = @ + 1]
    /\ UNCHANGED <<elections, replicates, hbPending, leaders, voted,
                   appliedAt, returns, calls, events>>
    /\ UNCHANGED <<callbacks, ran, trains, responses>>
    /\ UNCHANGED <<heard, malformed>>

\* Stop is called on the node of a running process: line 190 closes stopCh
\* and nothing else; the election timer and the blocked Accept stay as they
\* are.  A second call would close a closed channel.
Stop(n) ==
    /\ up[n]
    /\ rn[n].stopCh = "open"
    /\ events < MaxEvents
    /\ events' = events + 1
    /\ rn' = [rn EXCEPT ![n].stopCh = "closed"]
    /\ UNCHANGED <<up, elections, replicates, hbPending, leaders, voted,
                   appliedAt, returns, boots, calls, callbacks, ran, trains,
                   responses, heard, malformed>>

\* The messages that handleRPC does not hand to a handler in full: a line
\* that is no JSON, a type that is neither REQUEST_VOTE nor APPEND_ENTRIES,
\* and the two known types without a numeric term.
MalformedKinds ==
    {"unparseable", "unknown_type", "vote_no_term", "append_no_term"}

\* A connection with a malformed message reaches p: handleRPC lines
\* 459-487.  An unparseable line returns at line 469 and an unknown type is
\* answered {"error": "unknown"}.  A known type goes to its handler, whose
\* first statement (lines 490 and 522) is the type assertion
\* msg["term"].(float64) without the ok form: without a numeric term it
\* panics in the goroutine of handleRPC, which has no recover, and the
\* process ends as in Shutdown.
MalformedRPC(p, kind) ==
    /\ Accepts(p)
    /\ events < MaxEvents
    /\ events' = events + 1
    /\ malformed' = malformed \cup
          {[to |-> p, kind |-> kind, at |-> events + 1]}
    /\ IF kind \in {"vote_no_term", "append_no_term"}
       THEN /\ up' = [up EXCEPT ![p] = FALSE]
            /\ elections' = {e \in elections : e.id # p}
            /\ replicates' = {c \in replicates : c.id # p}
            /\ hbPending' = [hbPending EXCEPT ![p] = {}]
            /\ callbacks' = [callbacks EXCEPT ![p] = {}]
            /\ trains' = {t \in trains : t.id # p}
            /\ UNCHANGED rn
       ELSE /\ rn' = [rn EXCEPT ![p] = accepted(rn[p])]
            /\ UNCHANGED <<up, elections, replicates, hbPending, callbacks,
                           trains>>
    /\ UNCHANGED <<leaders, voted, appliedAt, returns, boots, calls, ran,
                   responses, heard>>

\* ------------------------------------------------------- apply callbacks
\* One callback goroutine of n starts: the closure of main.go lines 97-126
\* runs for the command of d.
RunCallback(n, d) ==
    /\ up[n]
    /\ d \in callbacks[n]
    /\ callbacks' = [callbacks EXCEPT ![n] = @ \ {d}]
    /\ ran' = [ran EXCEPT ![n] = Append(@, d)]
    /\ UNCHANGED <<rn, up, elections, replicates, hbPending, leaders, voted,
                   appliedAt, returns, boots, calls, events, trains,
                   responses>>
    /\ UNCHANGED <<heard, malformed>>

\* applyCommitted line 222 starts the callback with a go statement: it
\* runs on a goroutine of its own, which holds no lock.  Called in place,
\* it would run on the goroutine that holds rn.mu.
calledLocks == {"mu"}
spawnedLocks == {}

\* The functions of the node that take rn.mu.
LockingCalls == {"IsLeader", "GetLeader", "Replicate"}

\* One callback goroutine of n runs a callback that calls f.  rn.mu is not
\* reentrant: the call returns only on a goroutine that does not hold the
\* lock itself; no other goroutine holds it between two steps.  Replicate
\* runs its first region here (lines 370-380) and goes on as any call
\* does.
CallbackCalls(n, d, f) ==
    /\ up[n]
    /\ d \in callbacks[n]
    /\ "mu" \notin spawnedLocks
    /\ callbacks' = [callbacks EXCEPT ![n] = @ \ {d}]
    /\ ran' = [ran EXCEPT ![n] = Append(@, d)]
    /\ IF f # "Replicate"
       THEN UNCHANGED <<rn, replicates, returns, calls, events>>
       ELSE LET cmd == Command(calls + 1)
                entry == [Term |-> rn[n].currentTerm, Command |-> cmd]
                r == saveState([rn[n] EXCEPT !.log = Append(@, entry)])
            IN /\ events < MaxEvents
               /\ events' = events + 1
               /\ calls' = calls + 1
               /\ IF rn[n].state # "leader"
                  THEN /\ returns' = returns \cup
                            {[id |-> n, index |-> -1, entry |-> entry,
                              acked |-> {}, result |-> FALSE]}
                       /\ UNCHANGED <<rn, replicates>>
                  ELSE /\ rn' = [rn EXCEPT ![n] = r]
                       /\ replicates' = replicates \cup
                            {[id |-> n, entry |-> entry,
                              myIndex |-> Len(r.log) - 1, acks |-> 1,
                              acked |-> {}, pending |-> Peers(n)]}
                       /\ UNCHANGED returns
    /\ UNCHANGED <<up, elections, hbPending, leaders, voted, appliedAt,
                   boots, trains, responses, heard, malformed>>

\* ------------------------------------------------------------ handleTrain
\* A TRAIN request reaches n: main.go lines 226-238, up to the return of
\* IsLeader.  valid: the request has inputs and outputs.
TrainRequestNoCheck(n, valid) ==
    /\ up[n]
    /\ events < MaxEvents
    /\ events' = events + 1
    /\ IF ~valid
       THEN /\ responses' = responses \cup
                 {[id |-> n, req |-> events + 1, status |-> "ERROR",
                   message |-> "Missing inputs or outputs"]}
            /\ UNCHANGED trains
       ELSE /\ trains' = trains \cup
                 {[id |-> n, req |-> events + 1, pc |-> "train", cmd |-> ""]}
            /\ UNCHANGED responses
    /\ UNCHANGED <<rn, up, elections, replicates, hbPending, leaders, voted,
                   appliedAt, returns, boots, calls, callbacks, ran>>
    /\ UNCHANGED <<heard, malformed>>
TrainRequest(n, valid) ==
    /\ up[n]
    /\ events < MaxEvents
    /\ events' = events + 1
    /\ IF ~valid
       THEN /\ responses' = responses \cup
                 {[id |-> n, req |-> events + 1, status |-> "ERROR",
                   message |-> "Missing inputs or outputs"]}
            /\ UNCHANGED trains
       ELSE /\ trains' = trains \cup
                 {[id |-> n, req |-> events + 1,
                   pc |-> IF rn[n].state = "leader" THEN "train"
                          ELSE "GetLeader",
                   cmd |-> ""]}
            /\ UNCHANGED responses
    /\ UNCHANGED <<rn, up, elections, replicates, hbPending, leaders, voted,
                   appliedAt, returns, boots, calls, callbacks, ran>>
    /\ UNCHANGED <<heard, malformed>>

\* IsLeader returned false: main.go lines 239-248.
TrainRedirect(t) ==
    /\ t \in trains
    /\ t.pc = "GetLeader"
    /\ trains' = trains \ {t}
    /\ responses' = responses \cup
         {IF rn[t.id].leader # NoLeader
          THEN [id |-> t.id, req |-> t.req, status |-> "REDIRECT",
                leader |-> rn[t.id].leader]
          ELSE [id |-> t.id, req |-> t.req, status |-> "ERROR",
                message |-> "No leader available"]}
    /\ UNCHANGED <<rn, up, elections, replicates, hbPending, leaders, voted,
                   appliedAt, returns, boots, calls, events, callbacks, ran>>
    /\ UNCHANGED <<heard, malformed>>

\* IsLeader returned true: the training of main.go lines 251-275, then
\* either the error response of line 288 or the first region of Replicate
\* (raft.go lines 370-380) for the MODEL_TRAINED entry.  trained: the
\* training gave a model id.
TrainReplicate(t, trained) ==
    /\ t \in trains
    /\ t.pc = "train"
    /\ IF ~trained
       THEN /\ trains' = trains \ {t}
            /\ responses' = responses \cup
                 {[id |-> t.id, req |-> t.req, status |-> "ERROR",
                   message |-> "Training failed"]}
            /\ UNCHANGED <<rn, replicates, returns, calls>>
       ELSE LET cmd == Trained(calls + 1)
                entry == [Term |-> rn[t.id].currentTerm, Command |-> cmd]
                r == saveState([rn[t.id] EXCEPT !.log = Append(@, entry)])
            IN /\ calls' = calls + 1
               /\ trains' = (trains \ {t}) \cup
                     {[t EXCEPT !.pc = "Replicate", !.cmd = cmd]}
               /\ UNCHANGED responses
               /\ IF rn[t.id].state # "leader"
                  THEN /\ returns' = returns \cup
                            {[id |-> t.id, index |-> -1, entry |-> entry,
                              acked |-> {}, result |-> FALSE]}
                       /\ UNCHANGED <<rn, replicates>>
                  ELSE /\ rn' = [rn EXCEPT ![t.id] = r]
                       /\ replicates' = replicates \cup
                            {[id |-> t.id, entry |-> entry,
                              myIndex |-> Len(r.log) - 1, acks |-> 1,
                              acked |-> {}, pending |-> Peers(t.id)]}
                       /\ UNCHANGED returns
    /\ UNCHANGED <<up, elections, hbPending, leaders, voted, appliedAt,
                   boots, events, callbacks, ran>>
    /\ UNCHANGED <<heard, malformed>>

\* Replicate has returned to handleTrain with result r.result: main.go
\* lines 284-286.  replicated keeps the result for the history.
TrainRespond(t, r) ==
    /\ t \in trains
    /\ t.pc = "Replicate"
    /\ r \in returns
    /\ r.id = t.id /\ r.entry.Command = t.cmd
    /\ trains' = trains \ {t}
    /\ responses' = responses \cup
         {[id |-> t.id, req |-> t.req, status |-> "OK", model_id |-> t.cmd,
           replicated |-> r.result]}
    /\ UNCHANGED <<rn, up, elections, replicates, hbPending, leaders, voted,
                   appliedAt, returns, boots, calls, events, callbacks, ran>>
    /\ UNCHANGED <<heard, malformed>>

\* -------------------------------------------------------------------- Next
Next ==
    \/ \E n \in Nodes : TimerFire(n)
    \/ \E e \in elections, p \in Nodes, o \in Outcomes : RequestVoteRPC(e, p, o)
    \/ \E e \in elections : ElectionTally(e)
    \/ \E n \in Nodes : LeaderTick(n)
    \/ \E n \in Nodes, p \in Nodes : HeartbeatRPC(n, p)
    \/ \E n \in Nodes : ReplicateCall(n, Command(calls + 1))
    \/ \E c \in replicates, p \in Nodes, o \in Outcomes : ReplicateRPC(c, p, o)
    \/ \E c \in replicates : ReplicateTally(c)
    \/ \E n \in Nodes : Shutdown(n)
    \/ \E n \in Nodes : Restart(n)

Spec == Init /\ [][Next]_vars

\* The cluster with the apply-callback goroutines of its processes.
NextApply ==
    \/ Next
    \/ \E n \in Nodes : \E d \in callbacks[n] : RunCallback(n, d)

SpecApply == Init /\ [][NextApply]_vars

\* The cluster with the TRAIN handlers of its processes.
NextTrain ==
    \/ Next
    \/ \E n \in Nodes, valid \in BOOLEAN : TrainRequest(n, valid)
    \/ \E t \in trains : TrainRedirect(t)
    \/ \E t \in trains, trained \in BOOLEAN : TrainReplicate(t, trained)
    \/ \E t \in trains, r \in returns : TrainRespond(t, r)

SpecTrain == Init /\ [][NextTrain]_vars

\* The cluster with calls of Stop on running nodes.
NextStop ==
    \/ Next
    \/ \E n \in Nodes : Stop(n)

SpecStop == Init /\ [][NextStop]_vars

\* The cluster with malformed messages on the RPC ports.
NextMalformed ==
    \/ Next
    \/ \E p \in Nodes : \E kind \in MalformedKinds : MalformedRPC(p, kind)

SpecMalformed == Init /\ [][NextMalformed]_vars

\* The cluster of InitApplied with its callbacks.
SpecStore == InitApplied /\ [][NextApply]_vars

\* The cluster of InitCommitted with callbacks that call back into the
\* node.  The scheduler runs every goroutine that can run.
\* No election timer fires and no process ends in it.
NextLock ==
    \/ \E n \in Nodes : LeaderTick(n)
    \/ \E n \in Nodes, p \in Nodes : HeartbeatRPC(n, p)
    \/ \E n \in Nodes : ReplicateCall(n, Command(calls + 1))
    \/ \E c \in replicates, p \in Nodes, o \in Outcomes : ReplicateRPC(c, p, o)
    \/ \E c \in replicates : ReplicateTally(c)
    \/ \E n \in Nodes : \E d \in callbacks[n] : \E f \in LockingCalls :
          CallbackCalls(n, d, f)

SpecLock ==
    /\ InitCommitted
    /\ [][NextLock]_vars
    /\ \A n \in Nodes :
          WF_vars(\E d \in callbacks[n] : CallbackCalls(n, d, "IsLeader"))

\* Nodes without peers: no RPC goroutine is ever spawned.  The timers, the
\* goroutine of startElection and the goroutine of a Replicate call run on
\* as long as the process does.
NextSolo ==
    \/ \E n \in Nodes : SoloTimerFire(n)
    \/ \E e \in elections : ElectionTally(e)
    \/ \E n \in Nodes : LeaderTick(n)
    \/ \E n \in Nodes : ReplicateCall(n, Command(calls + 1))
    \/ \E c \in replicates : ReplicateTally(c)
    \/ \E n \in Nodes : Shutdown(n)
    \/ \E n \in Nodes : Restart(n)

SoloInit == InitSolo /\ InitRest
SpecSolo ==
    /\ SoloInit
    /\ [][NextSolo]_vars
    /\ \A n \in Nodes : WF_vars(SoloTimerFire(n))
    /\ WF_vars(\E e \in elections : ElectionTally(e))
    /\ WF_vars(\E c \in replicates : ReplicateTally(c))

\* The cluster followed from a split first election.
RaceInit == InitRace /\ InitRest
SpecRace == RaceInit /\ [][Next]_vars

\* The cluster followed from the start of its processes only.
FreshInit == InitFresh /\ InitRest
SpecFresh == FreshInit /\ [][Next]_vars

\* The callback alone: the process of one node hands it any commands in
\* any order, as committed entries of any log would.
CallbackRuns(n, c) ==
    /\ Len(ran[n]) < MaxRuns
    /\ \A m \in Nodes \ {n} : ran[m] = <<>>
    /\ ran' = [ran EXCEPT ![n] = Append(@, <<Len(@), c>>)]
    /\ UNCHANGED <<rn, up, elections, replicates, hbPending, leaders, voted,
                   appliedAt, returns, boots, calls, events, callbacks,
                   trains, responses, heard, malformed>>

NextCallback == \E n \in Nodes : \E c \in Commands : CallbackRuns(n, c)

SpecCallback == FreshInit /\ [][NextCallback]_vars

\* The cluster followed from a leader elected on the votes of an earlier
\* term.
StaleInit == InitStale /\ InitRest
SpecStale == StaleInit /\ [][Next]_vars

\* The cluster followed from its first committed entry.
SpecApplied == InitApplied /\ [][Next]_vars

\* ------------------------------------------------- Kotlin worker: RaftNode
\* The RaftNode class of the Kotlin worker keeps the same fields as the Go
\* node; Main.kt sets persistencePath before start, so that saveState
\* writes raft_state.json on every call.
RaftNode_saveState(r) == [r EXCEPT !.file = Marshal(r)]

\* RaftNode.applyCommitted: lastApplied is advanced to commitIndex and
\* every index inside the log is handed to a thread of its own.
RECURSIVE RaftNode_applyCommitted(_)
RaftNode_applyCommitted(r) ==
    IF r.lastApplied < r.commitIndex
    THEN LET i == r.lastApplied + 1
             r1 == [r EXCEPT !.lastApplied = i]
             r2 == IF i >= 0 /\ i < Len(r.log)
                   THEN [r1 EXCEPT !.dispatched =
                            Append(@, <<i, r.log[i + 1].Command>>)]
                   ELSE r1
         IN RaftNode_applyCommitted(r2)
    ELSE r

\* RaftNode.sendAppendEntries: the message is built from the fields of the
\* sender when the sending thread runs.
RaftNode_sendAppendEntries(r, entries) ==
    [type |-> "APPEND_ENTRIES", term |-> r.currentTerm, leader_id |-> r.id,
     entries |-> [i \in 1..Len(entries) |->
                    [term |-> entries[i].Term, command |-> entries[i].Command]],
     prev_log_index |-> -1, prev_log_term |-> 0,
     leader_commit |-> r.commitIndex]

\* RaftNode.handleAppendEntries: currentTerm is assigned first, and the
\* flag stateChanged is then computed from the assigned value.
RaftNode_handleAppendEntries(r, msg) ==
    IF msg.term >= r.currentTerm
    THEN LET r1 == [r EXCEPT !.currentTerm = msg.term,
                             !.state = "follower",
                             !.leader = msg.leader_id]
             termChanged == msg.term > r1.currentTerm
             r2 == [r1 EXCEPT !.log = @ \o
                       [i \in 1..Len(msg.entries) |->
                           [Term |-> msg.entries[i].term,
                            Command |-> msg.entries[i].command]]]
             stateChangedKt == termChanged \/ Len(msg.entries) > 0
             r3 == IF msg.leader_commit > r2.commitIndex
                   THEN RaftNode_applyCommitted(
                           [r2 EXCEPT !.commitIndex =
                               Min(msg.leader_commit, Len(r2.log) - 1)])
                   ELSE r2
             r4 == IF stateChangedKt THEN RaftNode_saveState(r3) ELSE r3
             r5 == [r4 EXCEPT !.electionTimer = TRUE]
         IN [rn |-> r5,
             resp |-> [type |-> "APPEND_RESPONSE", term |-> r5.currentTerm,
                       success |-> TRUE]]
    ELSE [rn |-> r,
          resp |-> [type |-> "APPEND_RESPONSE", term |-> r.currentTerm,
                    success |-> FALSE]]

\* myIndex of a call that has not yet read log.size.
Unread == -2

\* A tick of RaftNode.leaderLoop: sendHeartbeats starts one thread per
\* peer.
RaftNode_leaderLoop(n) ==
    /\ up[n]
    /\ rn[n].state = "leader"
    /\ events < MaxEvents
    /\ events' = events + 1
    /\ hbPending' = [hbPending EXCEPT ![n] = Peers(n)]
    /\ UNCHANGED <<rn, up, elections, replicates, leaders, voted, appliedAt,
                   returns, calls, boots, callbacks, ran, trains, responses,
                   heard, malformed>>

\* One heartbeat thread of n runs sendAppendEntries(p, emptyList()) and
\* reaches p; the response is not used.
RaftNode_heartbeat(n, p) ==
    /\ p \in hbPending[n]
    /\ up[p]
    /\ hbPending' = [hbPending EXCEPT ![n] = @ \ {p}]
    /\ LET h == RaftNode_handleAppendEntries(rn[p],
                    RaftNode_sendAppendEntries(rn[n], <<>>))
           rnNew == [rn EXCEPT ![p] = h.rn]
       IN /\ rn' = rnNew
          /\ appliedAt' = Applied(rnNew)
          /\ callbacks' = Spawned(rnNew)
    /\ UNCHANGED <<up, elections, replicates, leaders, voted, returns,
                   calls, events, boots, ran, trains, responses, heard,
                   malformed>>

\* RaftNode.replicate, first synchronized block: on the leader the entry
\* is appended and saved.  appended keeps the index it was appended at.
RaftNode_replicate(n, cmd) ==
    /\ up[n]
    /\ events < MaxEvents
    /\ events' = events + 1
    /\ calls' = calls + 1
    /\ LET entry == [Term |-> rn[n].currentTerm, Command |-> cmd]
           r == RaftNode_saveState([rn[n] EXCEPT !.log = Append(@, entry)])
       IN IF rn[n].state # "leader"
          THEN /\ returns' = returns \cup
                    {[id |-> n, appended |-> -1, entry |-> entry,
                      myIndex |-> Unread, sent |-> {}, acked |-> {},
                      result |-> FALSE]}
               /\ UNCHANGED <<rn, replicates>>
          ELSE /\ rn' = [rn EXCEPT ![n] = r]
               /\ replicates' = replicates \cup
                    {[id |-> n, appended |-> Len(r.log) - 1, entry |-> entry,
                      myIndex |-> Unread, sent |-> {}, acks |-> 1,
                      acked |-> {}, pending |-> Peers(n)]}
               /\ UNCHANGED returns
    /\ UNCHANGED <<up, elections, hbPending, leaders, voted, appliedAt, boots,
                   callbacks, ran, trains, responses, heard, malformed>>

\* RaftNode.replicate after the first block: val myIndex = log.size - 1
\* reads the log without the lock, then the sending threads are started.
RaftNode_replicateIndex(c) ==
    /\ c \in replicates
    /\ c.myIndex = Unread
    /\ replicates' = (replicates \ {c}) \cup
          {[c EXCEPT !.myIndex = Len(rn[c.id].log) - 1]}
    /\ UNCHANGED <<rn, up, elections, hbPending, leaders, voted, appliedAt,
                   returns, calls, events, boots, callbacks, ran, trains,
                   responses, heard, malformed>>

\* One sending thread of call c runs sendAppendEntries(p,
\* listOf(log[myIndex])) and reaches p.  sent keeps what was sent to whom.
RaftNode_replicateSend(c, p, o) ==
    /\ c \in replicates
    /\ c.myIndex # Unread
    /\ p \in c.pending
    /\ up[p]
    /\ LET e == rn[c.id].log[c.myIndex + 1]
           h == RaftNode_handleAppendEntries(rn[p],
                    RaftNode_sendAppendEntries(rn[c.id], <<e>>))
           counted == o = "delivered" /\ h.resp.success
           rnNew == [rn EXCEPT ![p] = h.rn]
       IN /\ rn' = rnNew
          /\ appliedAt' = Applied(rnNew)
          /\ callbacks' = Spawned(rnNew)
          /\ replicates' = (replicates \ {c}) \cup
                {[c EXCEPT !.pending = @ \ {p},
                           !.sent = @ \cup {<<p, e>>},
                           !.acks = IF counted THEN @ + 1 ELSE @,
                           !.acked = IF counted THEN @ \cup {p} ELSE @]}
    /\ UNCHANGED <<up, elections, hbPending, leaders, voted, returns, calls,
                   events, boots, ran, trains, responses, heard, malformed>>

\* RaftNode.replicate, second synchronized block, after the latch: on a
\* majority commitIndex = myIndex and applyCommitted.
RaftNode_replicateCommit(c) ==
    /\ c \in replicates
    /\ c.myIndex # Unread
    /\ LET r == rn[c.id]
           ok == c.acks >= Majority(c.id)
           r1 == IF ok
                 THEN RaftNode_applyCommitted([r EXCEPT !.commitIndex = c.myIndex])
                 ELSE r
           rnNew == [rn EXCEPT ![c.id] = r1]
       IN /\ rn' = rnNew
          /\ appliedAt' = Applied(rnNew)
          /\ callbacks' = Spawned(rnNew)
          /\ returns' = returns \cup
                {[id |-> c.id, appended |-> c.appended, entry |-> c.entry,
                  myIndex |-> c.myIndex, sent |-> c.sent, acked |-> c.acked,
                  result |-> ok]}
    /\ replicates' = replicates \ {c}
    /\ UNCHANGED <<up, elections, hbPending, leaders, voted, calls, events,
                   boots, ran, trains, responses, heard, malformed>>

\* A cluster of three Kotlin workers in the state of InitStale, which the
\* same steps of RaftNode.startElection and RaftNode.handleRequestVote
\* lead to: n1 is leader with currentTerm 2, n2 is candidate of term 1, n3
\* is follower of term 1; the elections are over.
InitKotlin ==
    /\ rn = [n \in Nodes |->
               IF n = "n1" THEN StaleLeader
               ELSE IF n = "n2" THEN FirstCandidate(n)
               ELSE FirstVoter(n, "n1")]
    /\ elections = {}
    /\ leaders = {<<"n1", 2>>}
    /\ voted = {<<"n1", 1, "n1">>, <<"n3", 1, "n1">>, <<"n2", 1, "n2">>,
                <<"n1", 2, "n1">>}
    /\ InitRest

NextKotlin ==
    \/ \E n \in Nodes : RaftNode_leaderLoop(n)
    \/ \E n \in Nodes, p \in Nodes : RaftNode_heartbeat(n, p)
    \/ \E n \in Nodes : RaftNode_replicate(n, Command(calls + 1))
    \/ \E c \in replicates : RaftNode_replicateIndex(c)
    \/ \E c \in replicates, p \in Nodes, o \in Outcomes :
          RaftNode_replicateSend(c, p, o)
    \/ \E c \in replicates : RaftNode_replicateCommit(c)

SpecKotlin == InitKotlin /\ [][NextKotlin]_vars

\* InitElected, InitRace, InitApplied and InitStale, up to the count of
\* events.
ReachElected ==
    /\ rn = [n \in Nodes |->
               IF n = "n1"
               THEN [FirstCandidate(n) EXCEPT !.state = "leader",
                                              !.leader = "n1"]
               ELSE FirstVoter(n, "n1")]
    /\ elections = {} /\ replicates = {} /\ returns = {}
    /\ leaders = {<<"n1", 1>>}
    /\ voted = {<<n, 1, "n1">> : n \in Nodes}
    /\ \A n \in Nodes : up[n] /\ hbPending[n] = {} /\ appliedAt[n] = {}
ReachRace ==
    /\ rn = [n \in Nodes |->
               IF n = "n3" THEN FirstVoter(n, "n1") ELSE FirstCandidate(n)]
    /\ elections = {[id |-> "n1", term |-> 1, votes |-> 2, pending |-> {"n2"}],
                    [id |-> "n2", term |-> 1, votes |-> 1,
                     pending |-> {"n1", "n3"}]}
    /\ replicates = {} /\ returns = {} /\ leaders = {}
    /\ voted = {<<"n1", 1, "n1">>, <<"n3", 1, "n1">>, <<"n2", 1, "n2">>}
    /\ \A n \in Nodes : up[n] /\ hbPending[n] = {} /\ appliedAt[n] = {}

ReachStale ==
    /\ rn = [n \in Nodes |->
               IF n = "n1" THEN StaleLeader
               ELSE IF n = "n2" THEN FirstCandidate(n)
               ELSE FirstVoter(n, "n1")]
    /\ elections = {[id |-> "n2", term |-> 1, votes |-> 1, pending |-> {"n3"}],
                    [id |-> "n1", term |-> 2, votes |-> 1,
                     pending |-> {"n2", "n3"}]}
    /\ leaders = {<<"n1", 2>>}
    /\ voted = {<<"n1", 1, "n1">>, <<"n3", 1, "n1">>, <<"n2", 1, "n2">>,
                <<"n1", 2, "n1">>}
    /\ replicates = {} /\ returns = {}
    /\ \A n \in Nodes : up[n] /\ hbPending[n] = {} /\ appliedAt[n] = {}
ReachCommitted ==
    /\ rn = [n \in Nodes |->
               IF n = "n1" THEN LeaderCommitted ELSE FollowerAppended(n)]
    /\ elections = {} /\ replicates = {}
    /\ leaders = {<<"n1", 1>>}
    /\ voted = {<<n, 1, "n1">> : n \in Nodes}
    /\ returns = {[id |-> "n1", index |-> 0, entry |-> FirstEntry,
                   acked |-> {"n2", "n3"}, result |-> TRUE]}
    /\ calls = 1
    /\ callbacks["n1"] = {<<0, Command(1)>>}
    /\ appliedAt["n1"] = {<<0, Command(1)>>}
    /\ \A n \in Nodes : up[n] /\ hbPending[n] = {} /\ boots[n] = 0
ReachApplied ==
    /\ rn = [n \in Nodes |->
               IF n = "n1" THEN LeaderCommitted ELSE FollowerApplied(n)]
    /\ elections = {} /\ replicates = {}
    /\ leaders = {<<"n1", 1>>}
    /\ voted = {<<n, 1, "n1">> : n \in Nodes}
    /\ returns = {[id |-> "n1", index |-> 0, entry |-> FirstEntry,
                   acked |-> {"n2", "n3"}, result |-> TRUE]}
    /\ calls = 1
    /\ \A n \in Nodes :
          /\ up[n] /\ hbPending[n] = {} /\ boots[n] = 0
          /\ appliedAt[n] = {<<0, Command(1)>>}


\* ------------------------------------------------------------------ claims
\* The quorum of the cluster: floor(N/2) + 1 with N the number of nodes.
Quorum == Cardinality(Nodes) \div 2 + 1

\* The in-memory persistent fields of a node.
Persistent(r) == <<r.currentTerm, r.votedFor, r.log>>

\* C1: for every term t at most one node ever becomes leader with
\* currentTerm = t.
ElectionSafety ==
    \A a \in leaders, b \in leaders : a[2] = b[2] => a[1] = b[1]

CommittedAgreement ==
    \A n \in Nodes, m \in Nodes :
        \A i \in 0..rn[n].commitIndex :
            (i < Len(rn[n].log) /\ i < Len(rn[m].log))
                => rn[n].log[i + 1] = rn[m].log[i + 1]

\* C4: two nodes that applied the entry at index i applied the same
\* command payload.
StateMachineSafety ==
    \A n \in Nodes, m \in Nodes :
        \A a \in appliedAt[n], b \in appliedAt[m] :
            a[1] = b[1] => a[2] = b[2]

\* C5: lastApplied <= commitIndex <= len(log) - 1 on every node, in every
\* state.
IndexOrder ==
    \A n \in Nodes :
        /\ rn[n].lastApplied <= rn[n].commitIndex
        /\ rn[n].commitIndex <= Len(rn[n].log) - 1

\* C6: currentTerm of a node never decreases, over elections, RPC handlers,
\* Replicate and a shutdown followed by a restart.
TermNeverDecreases ==
    [][\A n \in Nodes : rn'[n].currentTerm >= rn[n].currentTerm]_vars

\* A node that had started an election runs again after a shutdown, with
\* the term of that election.
TermNeverDecreasesWitness ==
    \E n \in Nodes :
        /\ up[n] /\ boots[n] > 0
        /\ rn[n].currentTerm >= 1 /\ rn[n].votedFor = n

\* C7: whenever a critical section that changed currentTerm, votedFor or
\* the log has ended, raft_state.json holds the in-memory values; a node
\* without a file has changed none of them.
DurableBeforeResponse ==
    \A n \in Nodes :
        IF rn[n].file = NoFile
        THEN Persistent(rn[n]) = <<0, "", <<>>>>
        ELSE rn[n].file = Marshal(rn[n])

\* A follower has adopted a term from an APPEND_ENTRIES without entries.
DurableBeforeResponseWitness ==
    \E n \in Nodes :
        /\ rn[n].state = "follower" /\ rn[n].leader # NoLeader
        /\ rn[n].log = <<>> /\ rn[n].votedFor = ""
        /\ rn[n].currentTerm >= 1

\* C8: a restarted node has the currentTerm, votedFor and log it had before
\* its shutdown, is follower with commitIndex = lastApplied = -1, and holds
\* (0, empty, empty log) when there is no state file.
RestartRoundTrip ==
    [][\A n \in Nodes :
          (~up[n] /\ up'[n]) =>
              /\ Persistent(rn'[n]) = Persistent(rn[n])
              /\ rn'[n].state = "follower"
              /\ rn'[n].commitIndex = -1
              /\ rn'[n].lastApplied = -1
              /\ rn[n].file = NoFile =>
                    Persistent(rn'[n]) = <<0, "", <<>>>>]_vars

\* A node that had appended, committed and applied an entry runs again
\* after a shutdown.
RestartRoundTripWitness ==
    \E n \in Nodes :
        /\ up[n] /\ boots[n] > 0 /\ appliedAt[n] # {}
        /\ rn[n].commitIndex = -1 /\ rn[n].lastApplied = -1
        /\ Len(rn[n].log) > 0 /\ rn[n].votedFor # ""

\* C9: a Replicate call on a node that is not leader returns false and
\* changes no node's log, state file or commitIndex, and sends nothing.
RejectOnNonLeader ==
    [][\A n \in Nodes :
          (/\ calls' = calls + 1
           /\ rn[n].state # "leader"
           /\ \/ \E r \in returns' \ returns : r.id = n
              \/ \E c \in replicates' \ replicates : c.id = n)
          => /\ rn' = rn
             /\ replicates' = replicates
             /\ hbPending' = hbPending
             /\ \E r \in returns' \ returns :
                   r.id = n /\ r.result = FALSE /\ r.index = -1]_vars

\* Replicate has returned from a call on a follower that knows the leader.
RejectOnNonLeaderWitness ==
    \E r \in returns :
        /\ r.index = -1 /\ ~r.result
        /\ rn[r.id].state = "follower" /\ rn[r.id].leader # NoLeader

\* C10: a Replicate call on a leader returns true, with commitIndex set to
\* the index of its entry, iff the peers that answered success plus the
\* leader are a quorum; the entry is then in the logs of a quorum of nodes.
MajorityCommit ==
    [][\A r \in returns' \ returns :
          r.index >= 0 =>
              /\ r.result <=> Cardinality(r.acked) + 1 >= Quorum
              /\ r.result =>
                    /\ rn'[r.id].commitIndex = r.index
                    /\ Cardinality({n \in Nodes :
                           \E i \in 1..Len(rn'[n].log) :
                               rn'[n].log[i] = r.entry}) >= Quorum]_vars

\* One call returned true on the answer of one peer while the other peer
\* never got the entry, and one call returned false.
MajorityCommitWitness ==
    /\ \E r \in returns :
          /\ r.result /\ Cardinality(r.acked) = 1
          /\ \E n \in Nodes : \A i \in 1..Len(rn[n].log) : rn[n].log[i] # r.entry
    /\ \E r \in returns : r.index >= 0 /\ ~r.result

\* C11: every index of the log of a node is handed to the apply callback at
\* most once over the whole history of the node, a shutdown and restart
\* included.
AppliedOnce ==
    [][\A n \in Nodes :
          \A k \in 1..Len(rn'[n].dispatched) :
              (up[n] /\ up'[n] /\ k > Len(rn[n].dispatched))
                  => \A a \in appliedAt[n] :
                        a[1] # rn'[n].dispatched[k][1]]_vars

\* C12: on a node the callback of log index i starts before the callback of
\* any index j > i (on a process that was never restarted, so that every
\* index is dispatched once).
ApplyOrder ==
    \A n \in Nodes :
        boots[n] = 0 =>
            /\ \A i \in 1..Len(ran[n]), j \in 1..Len(ran[n]) :
                  i < j => ran[n][i][1] < ran[n][j][1]
            /\ \A d \in callbacks[n] :
                  \A i \in 1..Len(ran[n]) : ran[n][i][1] < d[1]

\* A log that is a prefix of another.
IsPrefix(a, b) ==
    Len(a) <= Len(b) /\ \A i \in 1..Len(a) : a[i] = b[i]

\* C13: when the Replicate calls made on the one leader the cluster ever had
\* have all returned, with every APPEND_ENTRIES delivered and acknowledged
\* and no process stopped, the log of every follower is a prefix of the log
\* of the leader (here: the whole log, in the order of the leader).
LogOrder ==
    \A l \in Nodes :
        (/\ rn[l].state = "leader"
         /\ leaders = {<<l, rn[l].currentTerm>>}
         /\ elections = {} /\ replicates = {}
         /\ \A n \in Nodes : up[n] /\ boots[n] = 0
         /\ \A r \in returns : r.id = l /\ r.acked = Peers(l))
        => \A n \in Nodes : IsPrefix(rn[n].log, rn[l].log)

\* The answer the admission contract gives on node n: REDIRECT with the
\* leader n knows, or ERROR "No leader available".
RedirectAnswer(resp, n) ==
    IF rn[n].leader # NoLeader
    THEN resp.status = "REDIRECT" /\ resp.leader = rn[n].leader
    ELSE resp.status = "ERROR" /\ resp.message = "No leader available"

\* C14 as stated: every TRAIN request that reaches a node that is not
\* leader is answered by REDIRECT with the known leader or by ERROR "No
\* leader available", and neither trains nor calls Replicate.
TrainAdmissionAny ==
    [][/\ \A t \in trains' \ trains :
             t.cmd = "" => (t.pc = "GetLeader" <=> rn[t.id].state # "leader")
       /\ \A resp \in responses' \ responses :
             (\/ \E t \in trains : t.id = resp.id /\ t.req = resp.req
                                   /\ t.pc = "GetLeader"
              \/ /\ \A t \in trains : t.req # resp.req
                 /\ rn[resp.id].state # "leader")
             => /\ RedirectAnswer(resp, resp.id)
                /\ calls' = calls /\ replicates' = replicates
                /\ rn' = rn]_vars

\* C14, amended: a TRAIN request with inputs and outputs for which IsLeader
\* returned false is answered by REDIRECT with the leader the node knows, or
\* by ERROR "No leader available" when it knows none; it neither trains nor
\* calls Replicate, and only such requests take that path.
TrainAdmission ==
    [][/\ \A t \in trains' \ trains :
             t.cmd = "" => (t.pc = "GetLeader" <=> rn[t.id].state # "leader")
       /\ \A resp \in responses' \ responses :
             (\E t \in trains : t.id = resp.id /\ t.req = resp.req
                                /\ t.pc = "GetLeader")
             => /\ RedirectAnswer(resp, resp.id)
                /\ calls' = calls /\ replicates' = replicates
                /\ rn' = rn]_vars

\* A follower has redirected a client to the node that is leader.
TrainAdmissionWitness ==
    \E resp \in responses :
        /\ resp.status = "REDIRECT"
        /\ resp.leader # resp.id
        /\ rn[resp.leader].state = "leader"

\* C20: a TRAIN client is answered OK with a model id only when the
\* Replicate call of its request returned true.
OkAfterCommit ==
    \A resp \in responses : resp.status = "OK" => resp.replicated

\* The nodes whose process has handed command cmd to its apply callback,
\* in the history app.
AppliedOn(app, cmd) == {n \in Nodes : \E a \in app[n] : a[2] = cmd}

HeartbeatCatchUp ==
    [][\A l \in Nodes, m \in Nodes :
          (/\ m \in hbPending[l] /\ m \notin hbPending'[l]
           /\ up'[l] /\ rn[l].state = "leader"
           /\ rn'[m].leader = l /\ rn'[m].currentTerm = rn[l].currentTerm)
          => \A r \in returns :
                (r.id = l /\ r.result)
                => /\ \E i \in 1..Len(rn'[m].log) : rn'[m].log[i] = r.entry
                   /\ m \in AppliedOn(appliedAt', r.entry.Command)]_vars

\* C19 (the term of the new leader): while a node L is down that was
\* leader when it stopped, a survivor that becomes leader with the vote of
\* the other survivor, who is still in the term of that vote, does so with
\* a currentTerm strictly greater than the last term of L.
FailoverTerm ==
    [][\A w \in leaders' \ leaders :
          \A L \in Nodes \ {w[1]} :
              (/\ ~up[L] /\ rn[L].state = "leader"
               /\ \E s \in Nodes \ {L, w[1]} :
                     /\ <<s, w[2], w[1]>> \in voted
                     /\ up[s] /\ rn[s].currentTerm = w[2])
              => w[2] > rn[L].currentTerm]_vars

\* C16: a running node without peers becomes leader on its own vote; while
\* its process runs it stays leader, every Replicate call on it is accepted
\* and returns, and every return is true with commitIndex at the index of
\* the entry and the entry handed to the apply callback.
SoloLeader ==
    /\ \A n \in Nodes : up[n] ~> (rn[n].state = "leader" \/ ~up[n])
    /\ \A n \in Nodes :
          (\E c \in replicates : c.id = n)
              ~> (\A c \in replicates : c.id # n)
    /\ [][\A n \in Nodes :
             /\ (rn[n].state = "leader" /\ up[n] /\ up'[n])
                   => /\ rn'[n].state = "leader"
                      /\ \A r \in returns' \ returns :
                            r.id = n => r.index >= 0
             /\ \A r \in returns' \ returns :
                   (r.id = n /\ r.index >= 0)
                   => /\ r.result
                      /\ rn'[n].commitIndex = r.index
                      /\ <<r.index, r.entry.Command>> \in appliedAt'[n]]_vars

\* A node without peers is leader of term 1 and two Replicate calls on it
\* have returned true.
SoloLeaderWitness ==
    \E n \in Nodes :
        /\ rn[n].peers = {} /\ rn[n].state = "leader"
        /\ leaders = {<<n, 1>>}
        /\ rn[n].commitIndex >= 0
        /\ Cardinality({r \in returns : r.id = n /\ r.result}) = 2

\* The step is the handling on n of one REQUEST_VOTE or APPEND_ENTRIES
\* that a peer sent.
Served(n) ==
    \/ \E e \in elections \ elections' : \E f \in elections' \ elections :
          /\ n \in e.pending
          /\ f.id = e.id /\ f.term = e.term /\ f.pending = e.pending \ {n}
    \/ \E c \in replicates \ replicates' : \E f \in replicates' \ replicates :
          /\ n \in c.pending
          /\ f.id = c.id /\ f.myIndex = c.myIndex
          /\ f.pending = c.pending \ {n}
    \/ \E m \in Nodes :
          up[m] /\ up'[m] /\ n \in hbPending[m] /\ n \notin hbPending'[m]

\* C21: once Stop has been called on a node, the running process starts no
\* further election, spawns no further heartbeat and serves no further RPC.
StopHalts ==
    [][\A n \in Nodes :
          (up[n] /\ up'[n] /\ rn[n].stopCh = "closed") =>
             /\ \A v \in voted' \ voted : ~(v[1] = n /\ v[3] = n)
             /\ hbPending'[n] \subseteq hbPending[n]
             /\ ~Served(n)]_vars

\* The filename is one element that is no "..".
Basename(f) == Len(f) = 1 /\ f[1] # ".."

\* C22: a callback that runs for a STORE_FILE command whose filename is no
\* plain basename leaves every file of the node as it was, in the model
\* directory and outside of it.
StoreRejectsPath ==
    [][\A n \in Nodes :
          (/\ Len(ran'[n]) = Len(ran[n]) + 1
           /\ Payload(ran'[n][Len(ran'[n])][2]).action = "STORE_FILE"
           /\ ~Basename(Payload(ran'[n][Len(ran'[n])][2]).filename))
          => RunAll(<<>>, ran'[n]) = Files(n)]_vars

\* C24: on the files of every node, the callback of a command run twice
\* leaves the same files with the same contents as the callback run once.
StoreIdempotent ==
    \A n \in Nodes : \A c \in Commands :
        applyCallback(applyCallback(Files(n), c), c)
            = applyCallback(Files(n), c)

\* The callback of one STORE_FILE entry has run twice on a node, whose
\* files are those that one run leaves.
StoreIdempotentWitness ==
    \E n \in Nodes :
        /\ Len(ran[n]) = 2
        /\ ran[n][1][2] = ran[n][2][2]
        /\ Payload(ran[n][1][2]).action = "STORE_FILE"
        /\ DOMAIN Files(n) = {Join(modelsDir, Payload(ran[n][1][2]).filename)}
        /\ Files(n) = applyCallback(<<>>, ran[n][1][2])

\* C23: a malformed message that reaches a node is dropped: the process
\* keeps running and its currentTerm, votedFor, log, role and commitIndex
\* are as before.
MalformedDropped ==
    [][\A m \in malformed' \ malformed :
          /\ up'[m.to]
          /\ Persistent(rn'[m.to]) = Persistent(rn[m.to])
          /\ rn'[m.to].state = rn[m.to].state
          /\ rn'[m.to].commitIndex = rn[m.to].commitIndex]_vars

\* C25: a leader or candidate that receives a response carrying a term
\* above its currentTerm has adopted that term, is follower and has
\* persisted the change when the step is over.
StepDownOnHigherTerm ==
    [][\A n \in Nodes :
          heard'[n] > heard[n] =>
             /\ rn'[n].currentTerm >= heard'[n]
             /\ rn'[n].state = "follower"
             /\ rn'[n].file = Marshal(rn'[n])]_vars

\* C26: a node becomes leader of term T only in the tally of the election
\* it started for T, and only when a strict majority of the nodes, itself
\* included, has granted it a vote for T.
ElectedByMajority ==
    [][\A w \in leaders' \ leaders :
          /\ \E e \in elections \ elections' : e.id = w[1] /\ e.term = w[2]
          /\ Cardinality({s \in Nodes : <<s, w[2], w[1]>> \in voted})
                >= Quorum]_vars

\* C27: no step of a running process takes its node from leader to
\* candidate.
LeaderNeverCandidate ==
    [][\A n \in Nodes :
          (up[n] /\ up'[n] /\ rn[n].state = "leader")
             => rn'[n].state # "candidate"]_vars

\* C28: after every step in which the currentTerm of a running node has
\* increased, its votedFor is empty or is a vote that the node has given in
\* the new term: no vote of an older term is carried into a newer one.
VoteNotCarried ==
    [][\A n \in Nodes :
          (up[n] /\ up'[n] /\ rn'[n].currentTerm > rn[n].currentTerm)
             => \/ rn'[n].votedFor = ""
                \/ <<n, rn'[n].currentTerm, rn'[n].votedFor>>
                      \in voted' \ voted]_vars

\* The step is the handling on p of the REQUEST_VOTE of election e.
VoteStep(e, p) ==
    /\ e \in elections \ elections'
    /\ p \in e.pending
    /\ \E f \in elections' \ elections :
          f.id = e.id /\ f.term = e.term /\ f.pending = e.pending \ {p}

\* C29: handleRequestVote(term, candidateId) on a node: a term above
\* currentTerm is adopted first, with votedFor empty and role follower; the
\* vote is granted iff term >= currentTerm and votedFor is empty or the
\* candidate; a granted vote is in votedFor and in the state file; the
\* response carries the updated currentTerm and the decision, and only a
\* granted vote is counted.
VoteHandling ==
    [][\A e \in elections : \A p \in Nodes :
          VoteStep(e, p) =>
             LET cur == rn[p]
                 higher == e.term > cur.currentTerm
                 newTerm == IF higher THEN e.term ELSE cur.currentTerm
                 vote == IF higher THEN "" ELSE cur.votedFor
                 grant == e.term >= newTerm /\ vote \in {"", e.id}
                 resp == handleRequestVote(cur,
                            RequestVoteMsg(e.term, e.id)).resp
             IN /\ rn'[p].currentTerm = newTerm
                /\ rn'[p].votedFor = IF grant THEN e.id ELSE vote
                /\ rn'[p].state = IF higher THEN "follower" ELSE cur.state
                /\ rn'[p].log = cur.log
                /\ grant => rn'[p].file = Marshal(rn'[p])
                /\ resp.term = newTerm
                /\ resp.vote_granted = grant
                /\ voted' = IF grant THEN voted \cup {<<p, newTerm, e.id>>}
                            ELSE voted
                /\ \A f \in elections' \ elections :
                      f.votes = e.votes \/ (grant /\ f.votes = e.votes + 1)]_vars

\* A node that was candidate of term 1 has adopted term 2 from a
\* REQUEST_VOTE, is follower and has granted and persisted its vote for
\* the candidate of term 2, and a node has denied a REQUEST_VOTE.
VoteHandlingWitness ==
    \E p \in Nodes : \E c \in Nodes \ {p} :
        /\ <<p, 1, p>> \in voted
        /\ <<p, 2, c>> \in voted
        /\ rn[p].currentTerm = 2 /\ rn[p].votedFor = c
        /\ rn[p].state = "follower"
        /\ rn[p].file = Marshal(rn[p])
        /\ \E e \in elections : \E q \in Nodes \ {e.id} :
              q \notin e.pending /\ <<q, e.term, e.id>> \notin voted

\* C30: a REQUEST_VOTE that the receiver does not grant leaves its
\* votedFor, role, log and election timer as they were.
DenialChangesNothing ==
    [][\A e \in elections : \A p \in Nodes :
          (/\ VoteStep(e, p)
           /\ ~handleRequestVote(rn[p],
                  RequestVoteMsg(e.term, e.id)).resp.vote_granted)
          => /\ rn'[p].votedFor = rn[p].votedFor
             /\ rn'[p].state = rn[p].state
             /\ rn'[p].log = rn[p].log
             /\ rn'[p].electionTimer = rn[p].electionTimer]_vars

\* The APPEND_ENTRIES messages of a peer of r of a term below the
\* currentTerm of r: with
\* and without an entry, with the commitIndex of r, the next index and the
\* index one past the log of r as leader_commit.
StaleAppends(r) ==
    {[type |-> "APPEND_ENTRIES", term |-> t,
      leader_id |-> CHOOSE l \in Nodes : l # r.id,
      entries |-> es, prev_log_index |-> -1, prev_log_term |-> 0,
      leader_commit |-> lc] :
        t \in 0..(r.currentTerm - 1),
        es \in {<<>>, <<[term |-> 0, command |-> "c1"]>>},
        lc \in {r.commitIndex, r.commitIndex + 1, Len(r.log) + 1}}

\* C31: handleAppendEntries answers an APPEND_ENTRIES of a term below
\* currentTerm with (currentTerm, success = false) and leaves every field
\* of the node, the state file and the election timer included, as it
\* was, whatever entries and leader_commit the message carries.
StaleAppendRejected ==
    \A n \in Nodes : \A m \in StaleAppends(rn[n]) :
        handleAppendEntries(rn[n], m) =
            [rn |-> rn[n],
             resp |-> [type |-> "APPEND_RESPONSE",
                       term |-> rn[n].currentTerm, success |-> FALSE]]

\* The APPEND_ENTRIES of a Replicate call, sent in the term of the caller,
\* was handled by a peer of a newer term: the peer has not appended the
\* entry and the caller has received the term of the peer.
StaleAppendRejectedWitness ==
    \E c \in replicates : \E p \in Peers(c.id) :
        /\ p \notin c.pending /\ p \notin c.acked
        /\ rn[p].currentTerm > rn[c.id].currentTerm
        /\ heard[c.id] = rn[p].currentTerm
        /\ \A i \in 1..Len(rn[p].log) : rn[p].log[i] # c.entry
        /\ rn[p].state = "candidate" /\ ~rn[p].electionTimer

\* The APPEND_ENTRIES messages that p handles in the step: the message of
\* a Replicate call or a heartbeat, as its sender builds it.
AppendsServed(p) ==
    {AppendEntriesMsg(rn[c.id], <<c.entry>>) :
        c \in {d \in replicates \ replicates' :
                 /\ p \in d.pending
                 /\ \E f \in replicates' \ replicates :
                       /\ f.id = d.id /\ f.myIndex = d.myIndex
                       /\ f.pending = d.pending \ {p}}}
    \cup
    {AppendEntriesMsg(rn[m], <<>>) :
        m \in {k \in Nodes : /\ up[k] /\ up'[k]
                              /\ p \in hbPending[k]
                              /\ p \notin hbPending'[k]}}

\* C32: after handleAppendEntries has accepted a message, commitIndex is
\* the smaller of leader_commit and the last index of the log with the
\* received entries appended when leader_commit was above commitIndex, and
\* is unchanged otherwise.
FollowerCommit ==
    [][\A p \in Nodes : \A m \in AppendsServed(p) :
          m.term >= rn[p].currentTerm =>
             LET last == Len(rn[p].log) + Len(m.entries) - 1
             IN /\ Len(rn'[p].log) = last + 1
                /\ rn'[p].commitIndex =
                      IF m.leader_commit <= rn[p].commitIndex
                      THEN rn[p].commitIndex
                      ELSE IF m.leader_commit <= last THEN m.leader_commit
                      ELSE last]_vars

\* A follower has appended a second entry from a message whose
\* leader_commit was 0: its commitIndex is 0, below the last index of its
\* log, and the first entry is dispatched.
FollowerCommitWitness ==
    \E n \in Nodes :
        /\ rn[n].state = "follower" /\ up[n]
        /\ Len(rn[n].log) = 2
        /\ rn[n].commitIndex = 0 /\ rn[n].lastApplied = 0
        /\ Len(rn[n].dispatched) = 1

\* C33: no step of a running process lowers the commitIndex of its node.
CommitIndexMonotonic ==
    [][\A n \in Nodes :
          (up[n] /\ up'[n]) => rn'[n].commitIndex >= rn[n].commitIndex]_vars

\* C34: a Replicate call returns true and sets commitIndex to the index of
\* its entry only on a node that, when the call checks the majority, is
\* leader in the term of the entry.
CommitOnlyAsLeader ==
    [][\A r \in returns' \ returns :
          (r.result \/ rn'[r.id].commitIndex # rn[r.id].commitIndex)
             => /\ rn[r.id].state = "leader"
                /\ rn[r.id].currentTerm = r.entry.Term]_vars

\* C35: every APPEND_ENTRIES that reaches a node carries a term in which
\* its sender has won an election, and that of a Replicate call carries
\* the term of the entry of the call.
AppendFromLeaderOfTerm ==
    [][\A p \in Nodes :
          /\ \A m \in AppendsServed(p) : <<m.leader_id, m.term>> \in leaders
          /\ \A m \in AppendsServed(p) : \A i \in 1..Len(m.entries) :
                m.entries[i].term = m.term]_vars

\* The nodes whose log, as the step leaves it, holds the entry e at some
\* index.
Holders(e) ==
    {s \in Nodes : \E j \in 1..Len(rn'[s].log) : rn'[s].log[j] = e}

\* C36: whenever a running node hands the entry at an index of its log to
\* the apply callback, the logs of a strict majority of the nodes hold
\* that entry.
AppliedIsStored ==
    [][\A n \in Nodes :
          (up[n] /\ up'[n]) =>
             \A k \in 1..Len(rn'[n].dispatched) :
                k > Len(rn[n].dispatched) =>
                   Cardinality(Holders(rn'[n].log[rn'[n].dispatched[k][1] + 1]))
                      >= Quorum]_vars

\* C37: on a running node that is not leader, the leader hint is empty or
\* names another node.
NoSelfRedirect ==
    \A n \in Nodes :
        (up[n] /\ rn[n].state # "leader") => rn[n].leader # n

\* The dispatches that a node can have made.
Dispatches == (0..MaxEvents) \X {Command(k) : k \in 1..(MaxEvents + 1)}

ReplicateOwnEntry ==
    \A c \in replicates \cup returns :
        /\ c.myIndex # Unread => c.myIndex = c.appended
        /\ \A m \in c.sent : m[2] = c.entry

\* C40 (Kotlin worker): when a heartbeat with a term above currentTerm has
\* been handled, raft_state.json holds the new currentTerm.
HeartbeatTermPersisted ==
    [][\A n \in Nodes : \A p \in hbPending[n] \ hbPending'[n] :
          rn[n].currentTerm > rn[p].currentTerm =>
             /\ rn'[p].currentTerm = rn[n].currentTerm
             /\ rn'[p].file # NoFile
             /\ rn'[p].file.current_term = rn'[p].currentTerm]_vars
====
